---- MODULE Spec2Model ----
(***************************************************************************)
(* Document lifecycle and retrieval-query pipeline of the RAG chatbot      *)
(* backend: DocumentHandler (document_handler.py), RAGChain (g_chain.py),  *)
(* PDFLoader (utils/pdf_loader.py) and the two FastAPI endpoints that call *)
(* them (main.py).                                                         *)
(*                                                                         *)
(* Strings the code inspects (file names, questions, error messages) are   *)
(* sequences of tokens, so that endswith, strip, lower and the substring   *)
(* tests are computed and not assumed.  Python's None is the empty         *)
(* sequence where a name is expected.                                      *)
(***************************************************************************)
EXTENDS Integers, Sequences, FiniteSets, TLC

VARIABLES
    processed_docs,  \* DocumentHandler.processed_docs: a dict, kept as its items in key order
    fs,              \* the storage: path -> content, Missing when no file is there
    last,            \* what the last operation was given and what it answered
    faults,          \* storage calls that raised and files removed from outside, so far
    pending          \* the process requests started and not yet handed to a client, when
                     \* requests are in flight together: where each is and what it holds

vars == <<processed_docs, fs, last, faults, pending>>

----------------------------------------------------------------------------
(* Bounds *)

MaxChunks == 2    \* most chunks one document splits into
MaxFaults == 1    \* most storage faults (a storage call that raises, a file removed
                  \* from outside) in one run

----------------------------------------------------------------------------
(* Names, paths and file contents *)

None == <<>>
\* What a path holds: nothing, an uploaded document, a pickled index of n
\* chunks, a file cut short by a write that raised, or the pickled registry
File(kind, n, docs) == [kind |-> kind, chunks |-> n, docs |-> docs]
Missing == File("missing", 0, <<>>)
Pdf == File("pdf", 0, <<>>)
Index(n) == File("index", n, <<>>)
Truncated == File("truncated", 0, <<>>)
Pickled(docs) == File("registry", 0, docs)

\* The .pdf names clients upload, and a name that is no .pdf
DocIds == {<<"a", ".pdf">>, <<"b", ".pdf">>}
OtherName == <<"notes", ".txt">>
UploadNames == DocIds \cup {OtherName}

\* filename.endswith('.pdf')
EndsWithPdf(filename) == Len(filename) > 0 /\ filename[Len(filename)] = ".pdf"

\* f"uploaded_files/{file.filename}"
UploadPath(filename) == <<"uploaded_files/">> \o filename

\* One path for the index of every document
VectorstorePathShared(filename) == <<"vectorstore/", "index", "_vectorstore.pkl">>

\* f"vectorstore/{filename}_vectorstore.pkl"
VectorstorePath(filename) == <<"vectorstore/">> \o filename \o <<"_vectorstore.pkl">>

MetadataPath == <<"vectorstore/", "processed_docs_metadata.pkl">>

Paths ==
    {UploadPath(d) : d \in DocIds} \cup {VectorstorePath(d) : d \in DocIds}
        \cup {MetadataPath}

\* os.path.exists with the check left out
ExistsAlways(files, path) == TRUE

\* os.path.exists
Exists(files, path) == files[path].kind # "missing"

----------------------------------------------------------------------------
(* Exceptions: a class and a message.  Parent is the base class, so that   *)
(* an except clause catches by isinstance as Python does.                  *)

Parent(cls) ==
    CASE cls = "AuthenticationError" -> "OpenAIError"
      [] cls = "RateLimitError" -> "OpenAIError"
      [] cls = "APIConnectionError" -> "OpenAIError"
      [] cls = "FileNotFoundError" -> "OSError"
      [] OTHER -> "Exception"

RECURSIVE IsInstance(_, _)
IsInstance(cls, base) ==
    IF cls = base THEN TRUE
    ELSE IF cls = "Exception" \/ cls = "none" THEN FALSE
    ELSE IsInstance(Parent(cls), base)

NoExc == [cls |-> "none", msg |-> <<>>]
Raise(cls, msg) == [cls |-> cls, msg |-> msg]

AuthMsg == <<"OpenAI", "authentication", "failed", ".", "Please", "check", "your", "API", "key", ".">>
QuotaMsg == <<"OpenAI", "quota", "exceeded", ".", "Please", "try", "again", "later", ".">>
ServiceMsg == <<"OpenAI", "service", "error", ".", "Please", "try", "again", "later", ".">>
EncryptedMsg == <<"document", "closed", "or", "encrypted">>
BrokenMsg == <<"Failed", "to", "open", "file">>

\* The keys of a dict kept as its items in key order
Keys(docs) == [i \in 1..Len(docs) |-> docs[i].filename]
HasKey(docs, filename) == \E i \in 1..Len(docs) : docs[i].filename = filename
Get(docs, filename) == docs[CHOOSE i \in 1..Len(docs) : docs[i].filename = filename]

RECURSIVE Flatten(_)
Flatten(names) == IF names = <<>> THEN <<>> ELSE Head(names) \o Flatten(Tail(names))

\* f"Document not found. Available: {list(self.processed_docs.keys())}"
NotFoundMsg(docs) == <<"Document", "not", "found", ".", "Available", ":">> \o Flatten(Keys(docs))

----------------------------------------------------------------------------
(* DocumentHandler's registry and its persistence *)

Record(file_path, filename, vectorstore_path, n) ==
    [filename |-> filename, file_path |-> file_path,
     vectorstore_path |-> vectorstore_path, chunks_count |-> n, status |-> "processed"]

\* Put as a list of items would do it: the item is added whether or not the key is there
PutAppend(docs, rec) == Append(docs, rec)

\* self.processed_docs[filename] = {...}: a new key goes last, a key the dict
\* already holds keeps its place and takes the new value
Put(docs, rec) ==
    IF HasKey(docs, rec.filename)
    THEN [i \in 1..Len(docs) |-> IF docs[i].filename = rec.filename THEN rec ELSE docs[i]]
    ELSE Append(docs, rec)

\* del self.processed_docs[filename]
Del(docs, filename) == SelectSeq(docs, LAMBDA r : r.filename # filename)

SaveOutcomes == {"ok", "fails"}
LoadOutcomes == {"ok", "fails"}

\* _save_metadata: the whole dict is written over the file; an exception is logged
_save_metadata(docs, files, save) ==
    IF save = "ok" THEN [files EXCEPT ![MetadataPath] = Pickled(docs)] ELSE files

\* _load_metadata: the dict read from the file when the file exists; {} when
\* reading raises
_load_metadata(docs, files, load) ==
    IF Exists(files, MetadataPath)
    THEN IF load = "ok" THEN files[MetadataPath].docs ELSE <<>>
    ELSE docs

----------------------------------------------------------------------------
(* PDFLoader and RAGChain.create_vectorstore *)

\* What an uploaded file holds: text that splits into n chunks longer than 50
\* characters, a password-protected PDF (PyMuPDF raises ValueError on its
\* pages), or bytes that are no PDF (PyMuPDF raises FileDataError)
Contents ==
    {[kind |-> "text", chunks |-> n] : n \in 0..MaxChunks}
        \cup {[kind |-> "encrypted", chunks |-> 0], [kind |-> "broken", chunks |-> 0]}

\* load_and_split: the chunks, or the exception re-raised
load_and_split(content) ==
    CASE content.kind = "encrypted" -> [chunks |-> 0, exc |-> Raise("ValueError", EncryptedMsg)]
      [] content.kind = "broken" -> [chunks |-> 0, exc |-> Raise("FileDataError", BrokenMsg)]
      [] OTHER -> [chunks |-> content.chunks, exc |-> NoExc]

\* What the provider call does: it returns, or raises one of openai's errors,
\* or something else goes wrong in it
ProviderOutcomes == {"ok", "AuthenticationError", "RateLimitError", "APIConnectionError", "RuntimeError"}

\* The except clauses around a provider call, in the order g_chain.py has them
ClassifyProvider(cls) ==
    IF IsInstance(cls, "AuthenticationError") THEN Raise("ValueError", AuthMsg)
    ELSE IF IsInstance(cls, "RateLimitError") THEN Raise("ValueError", QuotaMsg)
    ELSE IF IsInstance(cls, "OpenAIError") THEN Raise("ValueError", ServiceMsg)
    ELSE Raise(cls, <<>>)

\* open(vectorstore_path, 'wb') and pickle.dump: open truncates the file, so a
\* dump that raises leaves a file that is no index
WriteOutcomes == {"ok", "open_fails", "dump_fails"}

\* create_vectorstore: True and the index written, False when anything but a
\* ValueError was raised, the ValueError itself otherwise
create_vectorstore(n, vectorstore_path, embed, write, files) ==
    LET e == IF embed = "ok" THEN NoExc ELSE ClassifyProvider(embed)
    IN IF e.cls # "none"
       THEN IF IsInstance(e.cls, "ValueError")
            THEN [ret |-> FALSE, exc |-> e, files |-> files]
            ELSE [ret |-> FALSE, exc |-> NoExc, files |-> files]
       ELSE CASE write = "ok" ->
                   [ret |-> TRUE, exc |-> NoExc,
                    files |-> [files EXCEPT ![vectorstore_path] = Index(n)]]
              [] write = "open_fails" ->
                   [ret |-> FALSE, exc |-> NoExc, files |-> files]
              [] OTHER ->
                   [ret |-> FALSE, exc |-> NoExc,
                    files |-> [files EXCEPT ![vectorstore_path] = Truncated]]

----------------------------------------------------------------------------
(* DocumentHandler.process_document *)

\* The except clauses of process_document resetting the registry, as the except
\* clause of _load_metadata does
ProcessCatchReset(e, docs, files) ==
    [ret |-> FALSE, exc |-> IF IsInstance(e.cls, "ValueError") THEN e ELSE NoExc,
     docs |-> <<>>, files |-> files]

\* The except clauses of process_document: a ValueError is raised again, any
\* other exception becomes False
ProcessCatch(e, docs, files) ==
    IF IsInstance(e.cls, "ValueError")
    THEN [ret |-> FALSE, exc |-> e, docs |-> docs, files |-> files]
    ELSE [ret |-> FALSE, exc |-> NoExc, docs |-> docs, files |-> files]

process_document(file_path, filename, content, embed, write, save, docs, files) ==
    LET split == load_and_split(content)
        vectorstore_path == VectorstorePath(filename)
        built == create_vectorstore(split.chunks, vectorstore_path, embed, write, files)
        docs2 == Put(docs, Record(file_path, filename, vectorstore_path, split.chunks))
    IN IF split.exc.cls # "none" THEN ProcessCatch(split.exc, docs, files)
       ELSE IF split.chunks = 0
       THEN [ret |-> FALSE, exc |-> NoExc, docs |-> docs, files |-> files]
       ELSE IF built.exc.cls # "none" THEN ProcessCatch(built.exc, docs, built.files)
       ELSE IF built.ret
       THEN [ret |-> TRUE, exc |-> NoExc, docs |-> docs2,
             files |-> _save_metadata(docs2, built.files, save)]
       ELSE [ret |-> FALSE, exc |-> NoExc, docs |-> docs, files |-> built.files]

----------------------------------------------------------------------------
(* RAGChain.query and DocumentHandler.query_document *)

\* with open(vectorstore_path, 'rb') as f: pickle.load(f)
LoadIndex(files, vectorstore_path) ==
    CASE files[vectorstore_path].kind = "index" -> NoExc
      [] files[vectorstore_path].kind = "missing" -> Raise("FileNotFoundError", <<>>)
      [] OTHER -> Raise("EOFError", <<"Ran", "out", "of", "input">>)

\* RAGChain.query: the exception it raises, NoExc when it returns a response;
\* whatever is raised inside is raised again by its last except clause
rag_query(vectorstore_path, engine, files) ==
    LET opened == LoadIndex(files, vectorstore_path)
    IN IF opened.cls # "none" THEN opened
       ELSE IF engine = "ok" THEN NoExc
       ELSE ClassifyProvider(engine)

\* filename = list(self.processed_docs.keys())[-1]
MostRecent(docs) == docs[Len(docs)].filename

\* query_document: the registry after the lazy load, the document resolved,
\* the exception raised (raised again unchanged by the except clause), whether
\* RAGChain.query was called, whether it got to ask the provider, the openai
\* error the provider raised and which of the failures of the call this was
query_document(filename, load, engine, docs, files) ==
    LET docs1 == IF docs = <<>> THEN _load_metadata(docs, files, load) ELSE docs
        name == IF filename = None /\ docs1 # <<>> THEN MostRecent(docs1) ELSE filename
    IN IF name = None \/ ~HasKey(docs1, name)
       THEN [docs |-> docs1, document |-> name, engine |-> FALSE, asked |-> FALSE,
             provider |-> "none", cause |-> "not_found", exc |-> Raise("ValueError", NotFoundMsg(docs1))]
       ELSE IF ~Exists(files, Get(docs1, name).vectorstore_path)
       THEN [docs |-> docs1, document |-> name, engine |-> FALSE, asked |-> FALSE,
             provider |-> "none", cause |-> "index_missing",
             exc |-> Raise("FileNotFoundError", <<"Vectorstore", "missing", "for", "document", ":">> \o name)]
       ELSE LET vectorstore_path == Get(docs1, name).vectorstore_path
                opened == LoadIndex(files, vectorstore_path).cls = "none"
                failed == opened /\ IsInstance(engine, "OpenAIError")
            IN [docs |-> docs1, document |-> name, engine |-> TRUE, asked |-> opened,
                provider |-> IF failed THEN engine ELSE "none",
                cause |-> IF failed THEN "provider"
                          ELSE IF opened /\ engine = "ok" THEN "none" ELSE "other",
                exc |-> rag_query(vectorstore_path, engine, files)]

\* get_processed_documents
get_processed_documents(load, docs, files) ==
    IF docs = <<>> THEN _load_metadata(docs, files, load) ELSE docs

----------------------------------------------------------------------------
(* DocumentHandler.delete_document *)

RemoveOutcomes == {"ok", "fails"}

\* delete_document without its first check: the paths are those the name gives
delete_document_unchecked(filename, rmIndex, rmSource, save, docs, files) ==
    [ret |-> HasKey(docs, filename), docs |-> Del(docs, filename),
     files |-> _save_metadata(Del(docs, filename),
                              [files EXCEPT ![VectorstorePath(filename)] = Missing,
                                            ![UploadPath(filename)] = Missing], save)]

\* delete_document: os.remove of the index, then of the source, each only when
\* the file exists; a removal that raises ends the call with False, what was
\* removed before it stays removed
delete_document(filename, rmIndex, rmSource, save, docs, files) ==
    IF ~HasKey(docs, filename) THEN [ret |-> FALSE, docs |-> docs, files |-> files]
    ELSE LET doc_info == Get(docs, filename)
             hasIndex == Exists(files, doc_info.vectorstore_path)
             files1 == IF hasIndex
                       THEN [files EXCEPT ![doc_info.vectorstore_path] = Missing]
                       ELSE files
             hasSource == Exists(files1, doc_info.file_path)
             files2 == IF hasSource
                       THEN [files1 EXCEPT ![doc_info.file_path] = Missing]
                       ELSE files1
             docs2 == Del(docs, filename)
         IN IF hasIndex /\ rmIndex = "fails"
            THEN [ret |-> FALSE, docs |-> docs, files |-> files]
            ELSE IF hasSource /\ rmSource = "fails"
            THEN [ret |-> FALSE, docs |-> docs, files |-> files1]
            ELSE [ret |-> TRUE, docs |-> docs2, files |-> _save_metadata(docs2, files2, save)]

----------------------------------------------------------------------------
(* main.py: the status codes of POST /process-pdf and POST /query *)

\* str.lower() of the words the messages are made of
Lower(tok) ==
    CASE tok = "OpenAI" -> "openai"
      [] tok = "Please" -> "please"
      [] tok = "API" -> "api"
      [] tok = "Document" -> "document"
      [] tok = "Available" -> "available"
      [] tok = "Failed" -> "failed"
      [] tok = "Ran" -> "ran"
      [] tok = "Vectorstore" -> "vectorstore"
      [] OTHER -> tok
LowerMsg(msg) == [i \in 1..Len(msg) |-> Lower(msg[i])]

\* pattern in text
Contains(text, pattern) ==
    \E i \in 0..(Len(text) - Len(pattern)) :
        \A j \in 1..Len(pattern) : text[i + j] = pattern[j]

\* eval(str(e)) if str(e).startswith('{') else {"error": str(e)}, then .get("error", ""):
\* a message that is a dict literal {'error': text} gives its text
ErrorText(msg) ==
    IF Len(msg) > 0 /\ msg[1] = "{"
    THEN IF Len(msg) >= 4 /\ msg[2] = "'error'" THEN SubSeq(msg, 4, Len(msg) - 1) ELSE <<>>
    ELSE msg

\* The status the except ValueError clause of an endpoint answers with
ValueErrorStatus(text) ==
    IF Contains(LowerMsg(text), <<"quota", "exceeded">>) THEN 429
    ELSE IF Contains(LowerMsg(text), <<"authentication">>) THEN 401
    ELSE 503

\* The except clauses of an endpoint, for an exception raised in its try block:
\* a ValueError by its message, and every other exception, the HTTPException
\* the block raised itself included, becomes 500
ProcessPdfCatch(e) ==
    IF IsInstance(e.cls, "ValueError") THEN ValueErrorStatus(e.msg) ELSE 500
QueryCatch(e) ==
    IF IsInstance(e.cls, "ValueError") THEN ValueErrorStatus(ErrorText(e.msg)) ELSE 500

\* question.strip(): whitespace removed at both ends
IsSpace(tok) == tok \in {" ", "\t", "\n"}
RECURSIVE LStrip(_)
LStrip(q) == IF q # <<>> /\ IsSpace(Head(q)) THEN LStrip(Tail(q)) ELSE q
RECURSIVE RStrip(_)
RStrip(q) == IF q # <<>> /\ IsSpace(q[Len(q)]) THEN RStrip(SubSeq(q, 1, Len(q) - 1)) ELSE q
Strip(q) == RStrip(LStrip(q))

Questions == {<<>>, <<" ", "\n">>, <<" ", "X", "?", " ">>}

----------------------------------------------------------------------------
(* The state machine *)

\* What the last operation was given and what it answered.  called: the
\* DocumentHandler method was entered; cause: what went wrong in the request;
\* ret: the boolean returned; raised: the class of the exception the
\* DocumentHandler method raised; status: the HTTP status, 0 for a call that
\* is no HTTP request; document: the document a query resolved to; engine:
\* RAGChain.query was called; provider: the openai error a provider call
\* raised; listing: the names get_processed_documents returned
Obs(op, filename, question, called, cause, ret, raised, status, document, engine, provider, listing) ==
    [op |-> op, filename |-> filename, question |-> question, called |-> called,
     cause |-> cause, ret |-> ret, raised |-> raised, status |-> status,
     document |-> document, engine |-> engine, provider |-> provider, listing |-> listing]

\* A process request not started: main.py runs one request at a time unless
\* requests are let in together
Idle ==
    [pc |-> "idle", content |-> [kind |-> "text", chunks |-> 0], embed |-> "ok",
     write |-> "ok", save |-> "ok", chunks |-> 0, built |-> FALSE, exc |-> NoExc,
     ret |-> FALSE, overlapped |-> FALSE]

\* An operation that is no request of a client and answers nothing
Quiet(op) == Obs(op, None, <<>>, FALSE, "none", FALSE, "none", 0, None, FALSE, "none", <<>>)

Init ==
    /\ processed_docs = <<>>
    /\ fs = [p \in Paths |-> Missing]
    /\ last = Quiet("init")
    /\ faults = 0
    /\ pending = [d \in DocIds |-> Idle]

\* One more storage fault, while the run may have one
Fault(raised) ==
    /\ raised => faults < MaxFaults
    /\ faults' = IF raised THEN faults + 1 ELSE faults

UploadOutcomes == {"ok", "fails"}

\* What goes wrong first in a process request, in the order the code meets it:
\* the name, the write of the upload, the extraction, no chunks, the embedding
\* provider or something else in the embedding, the write of the index, the
\* write of the registry
ProcessCause(name, content, upload, embed, write, save) ==
    IF ~EndsWithPdf(name) THEN "rejected"
    ELSE IF upload = "fails" THEN "upload"
    ELSE IF content.kind # "text" THEN "extraction"
    ELSE IF content.chunks = 0 THEN "empty"
    ELSE IF IsInstance(embed, "OpenAIError") THEN "provider"
    ELSE IF embed # "ok" THEN "other"
    ELSE IF write # "ok" THEN "persistence"
    ELSE IF save # "ok" THEN "registry"
    ELSE "none"

\* The environment decides the outcome of the calls an operation makes and of
\* no others: the read of the registry file happens when the registry in memory
\* is empty and the file exists, the provider is called once the index is
\* loaded, and delete_document removes the files that exist, one after the
\* other, before it writes the registry
LoadReached(docs, files) == docs = <<>> /\ Exists(files, MetadataPath)
DeleteReached(filename, rmIndex, rmSource, save, docs, files) ==
    /\ rmIndex = "fails" =>
          HasKey(docs, filename) /\ Exists(files, Get(docs, filename).vectorstore_path)
    /\ rmSource = "fails" =>
          /\ HasKey(docs, filename) /\ Exists(files, Get(docs, filename).file_path)
          /\ rmIndex = "ok"
    /\ save = "fails" => HasKey(docs, filename) /\ rmIndex = "ok" /\ rmSource = "ok"

\* POST /process-pdf
PostProcessPdf(name, content, upload, embed, write, save) ==
    LET cause == ProcessCause(name, content, upload, embed, write, save)
        file_path == UploadPath(name)
    IN IF ~EndsWithPdf(name)
       THEN /\ last' = Obs("process", name, <<>>, FALSE, cause, FALSE, "none",
                           ProcessPdfCatch(Raise("HTTPException", <<"Only", "PDF", "files", "are", "allowed">>)),
                           None, FALSE, "none", <<>>)
            /\ UNCHANGED <<processed_docs, fs, faults, pending>>
       ELSE IF upload = "fails"
       THEN /\ Fault(TRUE)
            /\ last' = Obs("process", name, <<>>, FALSE, cause, FALSE, "none",
                           ProcessPdfCatch(Raise("OSError", <<>>)), None, FALSE, "none", <<>>)
            /\ UNCHANGED <<processed_docs, fs, pending>>
       ELSE LET r == process_document(file_path, name, content, embed, write, save,
                                      processed_docs, [fs EXCEPT ![file_path] = Pdf])
                status == IF r.exc.cls # "none" THEN ProcessPdfCatch(r.exc)
                          ELSE IF r.ret THEN 200
                          ELSE ProcessPdfCatch(Raise("HTTPException", <<"Failed", "to", "process", "PDF">>))
            IN /\ Fault(cause \in {"persistence", "registry"})
               /\ processed_docs' = r.docs
               /\ fs' = r.files
               /\ last' = Obs("process", name, <<>>, TRUE, cause, r.ret, r.exc.cls, status,
                              None, FALSE, IF cause = "provider" THEN embed ELSE "none", <<>>)
               /\ UNCHANGED pending

\* POST /query
PostQuery(question, filename, load, engine) ==
    IF Strip(question) = <<>>
    THEN /\ last' = Obs("query", filename, question, FALSE, "blank", FALSE, "none",
                        QueryCatch(Raise("HTTPException", <<"Question", "cannot", "be", "empty">>)),
                        None, FALSE, "none", <<>>)
         /\ UNCHANGED <<processed_docs, fs, faults, pending>>
    ELSE LET r == query_document(filename, load, engine, processed_docs, fs)
         IN /\ load = "fails" => LoadReached(processed_docs, fs)
            /\ engine # "ok" => r.asked
            /\ Fault(load = "fails")
            /\ processed_docs' = r.docs
            /\ last' = Obs("query", filename, question, TRUE, r.cause, FALSE, r.exc.cls,
                           IF r.exc.cls = "none" THEN 200 ELSE QueryCatch(r.exc),
                           r.document, r.engine, r.provider, <<>>)
            /\ UNCHANGED <<fs, pending>>

\* DocumentHandler.get_processed_documents()
GetProcessedDocuments(load) ==
    LET docs1 == get_processed_documents(load, processed_docs, fs)
    IN /\ load = "fails" => LoadReached(processed_docs, fs)
       /\ Fault(load = "fails")
       /\ processed_docs' = docs1
       /\ last' = Obs("list", None, <<>>, TRUE, "none", FALSE, "none", 0, None, FALSE, "none", Keys(docs1))
       /\ UNCHANGED <<fs, pending>>

\* DocumentHandler.delete_document(filename)
DeleteDocument(filename, rmIndex, rmSource, save) ==
    LET r == delete_document(filename, rmIndex, rmSource, save, processed_docs, fs)
    IN /\ DeleteReached(filename, rmIndex, rmSource, save, processed_docs, fs)
       /\ Fault(rmIndex = "fails" \/ rmSource = "fails" \/ save = "fails")
       /\ processed_docs' = r.docs
       /\ fs' = r.files
       /\ last' = Obs("delete", filename, <<>>, TRUE, "none", r.ret, "none", 0, None, FALSE, "none", <<>>)
       /\ UNCHANGED pending

\* The server process ends and a new one starts: doc_handler = DocumentHandler()
Restart ==
    /\ processed_docs' = <<>>
    /\ last' = Quiet("restart")
    /\ UNCHANGED <<fs, faults, pending>>

\* Someone outside the program removes an index or an uploaded file
Tamper(path) ==
    /\ Exists(fs, path)
    /\ Fault(TRUE)
    /\ fs' = [fs EXCEPT ![path] = Missing]
    /\ last' = Quiet("tamper")
    /\ UNCHANGED <<processed_docs, pending>>

\* The requests clients send and what the environment does during each.  An
\* outcome the code never gets to (the embedding call of a document that has
\* no text) is left at "ok": varying it changes nothing
ProcessInputs ==
    {i \in [name : UploadNames, content : Contents, upload : UploadOutcomes,
            embed : ProviderOutcomes, write : WriteOutcomes, save : SaveOutcomes] :
        LET cause == ProcessCause(i.name, i.content, i.upload, i.embed, i.write, i.save)
        IN /\ cause \in {"rejected", "upload"} => i.content = [kind |-> "text", chunks |-> 1]
           /\ cause = "rejected" => i.upload = "ok"
           /\ cause \in {"rejected", "upload", "extraction", "empty"} => i.embed = "ok"
           /\ cause \notin {"persistence", "registry", "none"} => i.write = "ok"
           /\ cause \notin {"registry", "none"} => i.save = "ok"
           /\ cause \in {"provider", "other", "persistence"} => i.content.chunks = 1}

QueryInputs ==
    {i \in [question : Questions, filename : DocIds \cup {None},
            load : LoadOutcomes, engine : ProviderOutcomes] :
        Strip(i.question) = <<>> => i.filename = None /\ i.load = "ok" /\ i.engine = "ok"}

Next ==
    \/ \E i \in QueryInputs : PostQuery(i.question, i.filename, i.load, i.engine)
    \/ \E i \in ProcessInputs :
          PostProcessPdf(i.name, i.content, i.upload, i.embed, i.write, i.save)
    \/ \E load \in LoadOutcomes : GetProcessedDocuments(load)
    \/ \E filename \in DocIds, rmIndex \in RemoveOutcomes, rmSource \in RemoveOutcomes,
          save \in SaveOutcomes :
          DeleteDocument(filename, rmIndex, rmSource, save)
    \/ Restart
    \/ \E path \in Paths \ {MetadataPath} : Tamper(path)

Spec == Init /\ [][Next]_vars

\* The operations of DocumentHandler alone: no restart, and nobody outside the
\* program touches the storage
NextOperations ==
    \/ \E i \in QueryInputs : PostQuery(i.question, i.filename, i.load, i.engine)
    \/ \E i \in ProcessInputs :
          PostProcessPdf(i.name, i.content, i.upload, i.embed, i.write, i.save)
    \/ \E load \in LoadOutcomes : GetProcessedDocuments(load)
    \/ \E filename \in DocIds, rmIndex \in RemoveOutcomes, rmSource \in RemoveOutcomes,
          save \in SaveOutcomes :
          DeleteDocument(filename, rmIndex, rmSource, save)

OperationsSpec == Init /\ [][NextOperations]_vars

----------------------------------------------------------------------------
(* RAGChain.query: the sources of a response.  A text is the sequence of   *)
(* its characters.                                                         *)

SourceLimit == 200    \* page_content[:200], len(page_content) > 200
RetrieveK == 4        \* search_kwargs={"k": 4}
ChunkSize == 1000     \* PDFLoader(chunk_size=1000)
MinChunk == 50        \* len(chunk.strip()) > 50

Ellipsis == <<".", ".", ".">>

\* The text of n characters that a chunk of that length holds
Alphabet == <<"a", "b", "c", ".", "d", "e", "f">>
Text(n) == [i \in 1..n |-> Alphabet[(i % Len(Alphabet)) + 1]]

\* The lengths of the chunks the splitter keeps, around the limit of a source
ChunkLengths ==
    {MinChunk + 1, SourceLimit - 1, SourceLimit, SourceLimit + 1, SourceLimit + 3, ChunkSize}

\* Document(page_content=chunk): metadata is empty
Document(n) == [page_content |-> Text(n), metadata |-> <<>>]

\* result["source_documents"]: the documents the retriever found, at most k,
\* in the order it gives them
RECURSIVE Retrievals(_)
Retrievals(k) ==
    IF k = 0 THEN {<<>>}
    ELSE Retrievals(k - 1)
           \cup {Append(r, Document(n)) : r \in {q \in Retrievals(k - 1) : Len(q) = k - 1},
                                          n \in ChunkLengths}

\* text[:n]
Slice(text, n) == SubSeq(text, 1, IF Len(text) < n THEN Len(text) ELSE n)

\* The content of a source with the ellipsis added from the limit on
SourceContentFromLimit(page_content) ==
    IF Len(page_content) >= SourceLimit
    THEN Slice(page_content, SourceLimit) \o Ellipsis
    ELSE page_content

\* doc.page_content[:200] + "..." if len(doc.page_content) > 200 else doc.page_content
SourceContent(page_content) ==
    IF Len(page_content) > SourceLimit
    THEN Slice(page_content, SourceLimit) \o Ellipsis
    ELSE page_content

\* The query of a processed document got its result from the chain; sources = []
InitSources ==
    /\ \E source_documents \in Retrievals(RetrieveK) :
          last = [op |-> "rag_query", source_documents |-> source_documents, sources |-> <<>>]
    /\ LET name == CHOOSE d \in DocIds : TRUE
           docs == <<Record(UploadPath(name), name, VectorstorePath(name), 1)>>
       IN /\ processed_docs = docs
          /\ fs = [p \in Paths |->
                     IF p = UploadPath(name) THEN Pdf
                     ELSE IF p = VectorstorePath(name) THEN Index(1)
                     ELSE IF p = MetadataPath THEN Pickled(docs)
                     ELSE Missing]
    /\ faults = 0
    /\ pending = [d \in DocIds |-> Idle]

\* One turn of: for doc in result.get("source_documents", []): sources.append({...})
AppendSource ==
    /\ last.op = "rag_query"
    /\ Len(last.sources) < Len(last.source_documents)
    /\ LET doc == last.source_documents[Len(last.sources) + 1]
       IN last' = [last EXCEPT !.sources =
                      Append(@, [content |-> SourceContent(doc.page_content),
                                 metadata |-> doc.metadata])]
    /\ UNCHANGED <<processed_docs, fs, faults, pending>>

NextSources == AppendSource

SourcesSpec == InitSources /\ [][NextSources]_vars

----------------------------------------------------------------------------
(* Two process requests in flight together.  The handlers are coroutines   *)
(* on one event loop: what runs between two awaits runs alone, and at an   *)
(* await (main.py:59, document_handler.py:44) the loop may turn to the     *)
(* other request.                                                          *)

InFlight(call) == call.pc \in {"split", "built"}

\* The response of process_pdf for a call that has ended
ProcessResponse(d, call) ==
    Obs("process", d, <<>>, TRUE,
        ProcessCause(d, call.content, "ok", call.embed, call.write, call.save),
        call.ret, call.exc.cls,
        IF call.exc.cls # "none" THEN ProcessPdfCatch(call.exc)
        ELSE IF call.ret THEN 200
        ELSE ProcessPdfCatch(Raise("HTTPException", <<"Failed", "to", "process", "PDF">>)),
        None, FALSE,
        IF IsInstance(call.embed, "OpenAIError") /\ call.exc.cls # "none"
        THEN call.embed ELSE "none",
        <<>>)

\* process_pdf up to the await of create_vectorstore: the upload is written,
\* the text extracted and split
StartProcess(d, content) ==
    LET files == [fs EXCEPT ![UploadPath(d)] = Pdf]
        split == load_and_split(content)
        caught == ProcessCatch(split.exc, processed_docs, files)
        call == [pending[d] EXCEPT
                    !.content = content,
                    !.chunks = split.chunks,
                    !.overlapped = \E e \in DocIds \ {d} : InFlight(pending[e])]
        ended == IF split.exc.cls # "none"
                 THEN [call EXCEPT !.pc = "done", !.exc = caught.exc]
                 ELSE IF split.chunks = 0 THEN [call EXCEPT !.pc = "done"]
                 ELSE [call EXCEPT !.pc = "split"]
    IN /\ pending[d].pc = "idle"
       /\ fs' = files
       /\ pending' = [pending EXCEPT ![d] = ended]
       /\ last' = IF ended.pc = "done" THEN ProcessResponse(d, ended) ELSE last
       /\ UNCHANGED <<processed_docs, faults>>

\* RAGChain.create_vectorstore for the call of d
BuildIndex(d, embed, write) ==
    LET call == pending[d]
        built == create_vectorstore(call.chunks, VectorstorePath(d), embed, write, fs)
    IN /\ call.pc = "split"
       /\ embed # "ok" => write = "ok"
       /\ Fault(embed = "ok" /\ write # "ok")
       /\ fs' = built.files
       /\ pending' = [pending EXCEPT ![d] =
                        [call EXCEPT !.pc = "built", !.embed = embed, !.write = write,
                                     !.built = built.ret, !.exc = built.exc]]
       /\ UNCHANGED <<processed_docs, last>>

\* process_document after the await: the record and the registry file when the
\* index was built, and the response
FinishProcess(d, save) ==
    LET call == pending[d]
        docs2 == Put(processed_docs,
                     Record(UploadPath(d), d, VectorstorePath(d), call.chunks))
        caught == ProcessCatch(call.exc, processed_docs, fs)
        ended == IF call.exc.cls # "none"
                 THEN [call EXCEPT !.pc = "done", !.exc = caught.exc]
                 ELSE [call EXCEPT !.pc = "done", !.ret = call.built, !.save = save]
    IN /\ call.pc = "built"
       /\ save = "fails" => (call.exc.cls = "none" /\ call.built)
       /\ Fault(save = "fails")
       /\ processed_docs' = IF ended.ret THEN docs2 ELSE processed_docs
       /\ fs' = IF ended.ret THEN _save_metadata(docs2, fs, save) ELSE fs
       /\ pending' = [pending EXCEPT ![d] = ended]
       /\ last' = ProcessResponse(d, ended)

NextConcurrent ==
    \/ \E d \in DocIds, content \in Contents : StartProcess(d, content)
    \/ \E d \in DocIds, embed \in ProviderOutcomes, write \in WriteOutcomes :
          BuildIndex(d, embed, write)
    \/ \E d \in DocIds, save \in SaveOutcomes : FinishProcess(d, save)

ConcurrentSpec == Init /\ [][NextConcurrent]_vars

----------------------------------------------------------------------------
(* Claims *)

IsRequest == last.op \in {"process", "query"}

NoDuplicates(names) ==
    \A i, j \in 1..Len(names) : names[i] = names[j] => i = j

\* C1: a query with no explicit document id resolves to the most recently
\* successfully processed document, also when that document was processed
\* before and has been processed again; stated for the query that comes right
\* after the successful process
C1_DefaultIsLatestProcessed ==
    [][(last.op = "process" /\ last.ret
          /\ last'.op = "query" /\ last'.called /\ last'.filename = None)
         => last'.document = last.filename]_vars

\* C2: the registry and list() hold each documentId at most once; a successful
\* process of a documentId that has a record keeps the number of records and
\* the indexPath, and leaves the record and the index at that path holding the
\* chunks of this run
C2_ReprocessReplaces ==
    /\ [](NoDuplicates(Keys(processed_docs)))
    /\ [](last.op = "list" => NoDuplicates(last.listing) /\ last.listing = Keys(processed_docs))
    /\ [][(last'.op = "process" /\ last'.ret /\ HasKey(processed_docs, last'.filename))
            => /\ Len(processed_docs') = Len(processed_docs)
               /\ Keys(processed_docs') = Keys(processed_docs)
               /\ Get(processed_docs', last'.filename).vectorstore_path
                    = Get(processed_docs, last'.filename).vectorstore_path
               /\ fs'[Get(processed_docs, last'.filename).vectorstore_path]
                    = Index(Get(processed_docs', last'.filename).chunks_count)
               /\ Get(processed_docs', last'.filename).chunks_count >= 1]_vars

\* C2 witness: a document processed again with success; its key is not the
\* last one, which only a second process of it brings about
C2_Witness ==
    /\ last.op = "process" /\ last.ret
    /\ Len(processed_docs) = 2
    /\ MostRecent(processed_docs) # last.filename
    /\ fs[VectorstorePath(last.filename)] = Index(Get(processed_docs, last.filename).chunks_count)

\* C3: process raises to its caller if and only if the provider failed; every
\* other failure (of the extraction, no chunks, of a write to storage, any
\* other exception) is not raised and gives the result false
C3_RaisesIffProviderFailed ==
    (last.op = "process" /\ last.called)
        => /\ (last.raised # "none") <=> (last.cause = "provider")
           /\ last.cause \notin {"none", "provider"} => ~last.ret

\* C4: a process attempt that fails, raising or not, leaves the registry in
\* memory and the persisted registry as they were, and the same documentId can
\* be processed with success right after
C4_FailedProcessKeepsRegistry ==
    /\ [][(last'.op = "process" /\ ~last'.ret)
            => /\ processed_docs' = processed_docs
               /\ fs'[MetadataPath] = fs[MetadataPath]]_vars
    /\ []((last.op = "process" /\ ~last.ret /\ EndsWithPdf(last.filename))
            => LET r == process_document(UploadPath(last.filename), last.filename,
                                         [kind |-> "text", chunks |-> 1], "ok", "ok", "ok",
                                         processed_docs, fs)
               IN r.ret /\ HasKey(r.docs, last.filename))

\* C4 witness: a failed attempt for a documentId that has a record, which is kept
C4_Witness ==
    /\ last.op = "process" /\ last.called /\ ~last.ret
    /\ last.raised # "none"
    /\ HasKey(processed_docs, last.filename)
    /\ fs[MetadataPath] = Pickled(processed_docs)

\* C5: delete of a documentId that has no record returns false, raises
\* nothing and changes neither the registry, nor the persisted registry, nor
\* any index or source artifact
C5_DeleteUnknownChangesNothing ==
    [][(last'.op = "delete" /\ ~HasKey(processed_docs, last'.filename))
         => /\ ~last'.ret
            /\ last'.raised = "none"
            /\ processed_docs' = processed_docs
            /\ fs' = fs]_vars

\* C5 witness: delete answered false for a documentId without a record while
\* artifacts under its name are on storage
C5_Witness ==
    /\ last.op = "delete" /\ ~last.ret
    /\ ~HasKey(processed_docs, last.filename)
    /\ Exists(fs, VectorstorePath(last.filename))
    /\ Exists(fs, UploadPath(last.filename))

\* C6: delete of a documentId that has a record returns true, and afterwards
\* its index and source artifacts are not on storage, its record is gone and
\* the persisted registry is the registry in memory
C6_DeleteKnownRemovesAll ==
    [][(last'.op = "delete" /\ HasKey(processed_docs, last'.filename))
         => /\ last'.ret
            /\ ~Exists(fs', Get(processed_docs, last'.filename).vectorstore_path)
            /\ ~Exists(fs', Get(processed_docs, last'.filename).file_path)
            /\ ~HasKey(processed_docs', last'.filename)
            /\ fs'[MetadataPath] = Pickled(processed_docs')]_vars

\* C7: query fails with NotFound (the ValueError "Document not found") when
\* the registry is empty or the documentId has no record, and with IndexMissing
\* (FileNotFoundError), before RAGChain.query is called, when the record is
\* there and its index is not on storage
C7_QueryNotFoundIndexMissing ==
    (last.op = "query" /\ last.called)
        => /\ (last.document = None \/ ~HasKey(processed_docs, last.document))
                => (last.raised = "ValueError" /\ last.cause = "not_found" /\ ~last.engine)
           /\ (last.filename # None => last.document = last.filename)
           /\ (last.filename = None /\ processed_docs = <<>>) => last.document = None
           /\ (last.document # None /\ HasKey(processed_docs, last.document)
                 /\ fs[Get(processed_docs, last.document).vectorstore_path] = Missing)
                => (last.raised = "FileNotFoundError" /\ last.cause = "index_missing"
                      /\ ~last.engine)

\* C7 witness: a query for a recorded document whose index is gone
C7_Witness ==
    /\ last.op = "query" /\ last.called
    /\ last.document # None /\ HasKey(processed_docs, last.document)
    /\ fs[VectorstorePath(last.document)] = Missing
    /\ last.raised = "FileNotFoundError"

\* C8: at both endpoints a provider authentication failure gives 401, a
\* provider quota failure 429, any other provider failure 503, and a failure
\* that is not the provider's gives 500
C8_StatusOfFailure ==
    (IsRequest /\ last.status # 200)
        => last.status = CASE last.provider = "AuthenticationError" -> 401
                           [] last.provider = "RateLimitError" -> 429
                           [] last.provider # "none" -> 503
                           [] OTHER -> 500

\* C9: POST /query with an empty or whitespace-only question answers 400 and
\* neither the registry nor the query engine is used
C9_BlankQuestionIs400 ==
    (last.op = "query" /\ Strip(last.question) = <<>>)
        => (last.status = 400 /\ ~last.called /\ ~last.engine)

\* C10: an endpoint answers 401, 429 or 503 only when a provider call failed
C10_ProviderStatusOnlyForProvider ==
    (IsRequest /\ last.status \in {401, 429, 503}) => last.provider # "none"

\* The registry as the registry file holds it, {} when the file is not there
Persisted(files) == files[MetadataPath].docs

\* C11: whenever process returns success or delete returns true, the registry
\* file has been written as a whole and holds the registry in memory as it is
\* when the operation returns
C11_PersistedAfterMutation ==
    [][(last'.op \in {"process", "delete"} /\ last'.ret)
         => fs'[MetadataPath] = Pickled(processed_docs')]_vars

\* C12: process, query, list and delete, when the registry in memory is empty
\* as they start and the registry file can be read, work on the registry the
\* file holds: query and list leave it in memory, delete finds and removes the
\* record it holds, a successful process adds its record to it
C12_LazyLoadOnFirstAccess ==
    [][(/\ processed_docs = <<>>
        /\ fs[MetadataPath].kind = "registry"
        /\ faults' = faults
        /\ last'.called
        /\ last'.op \in {"process", "query", "list", "delete"})
         => LET loaded == Persisted(fs)
            IN CASE last'.op \in {"query", "list"} -> processed_docs' = loaded
                 [] last'.op = "delete" ->
                      /\ last'.ret = HasKey(loaded, last'.filename)
                      /\ processed_docs' = Del(loaded, last'.filename)
                 [] OTHER ->
                      last'.ret =>
                          processed_docs' = Put(loaded, Get(processed_docs', last'.filename))]_vars

\* C13: create_vectorstore reports every failure by raising: a provider
\* failure as the classified error, a failure to write the index and any other
\* failure as an exception too; it never answers a failure with False.  Stated
\* for the build a process request makes, over the outcomes of the embedding
\* call and of the write that give the request its cause of failure
C13_BuildPropagatesFailures ==
    [][(last'.op = "process" /\ last'.called
          /\ last'.cause \in {"provider", "other", "persistence"})
         => \A embed \in ProviderOutcomes, write \in WriteOutcomes :
              LET content == [kind |-> "text", chunks |-> 1]
                  files == [fs EXCEPT ![UploadPath(last'.filename)] = Pdf]
                  built == create_vectorstore(1, VectorstorePath(last'.filename),
                                              embed, write, files)
              IN (/\ ProcessCause(last'.filename, content, "ok", embed, write, "ok")
                       = last'.cause
                  /\ built.files = fs')
                   => (~built.ret /\ built.exc.cls # "none")]_vars

\* C14: in every state reached by process, delete, list and query alone,
\* every record of the registry has status processed, chunks_count >= 1 and
\* an index file at its vectorstore_path, also after a process or a delete
\* that failed part-way
C14_RecordsHaveIndex ==
    \A i \in 1..Len(processed_docs) :
        /\ processed_docs[i].status = "processed"
        /\ processed_docs[i].chunks_count >= 1
        /\ Exists(fs, processed_docs[i].vectorstore_path)

\* C15: the content of each source of a response is the text of the
\* retrieved chunk when the text has at most 200 characters, otherwise its
\* first 200 characters followed by three dots; so no content has more than
\* 203 characters, and the sources are in the order of the retrieval
C15_SourcesTruncated ==
    last.op = "rag_query" =>
        /\ Len(last.sources) <= Len(last.source_documents)
        /\ \A i \in 1..Len(last.sources) :
              LET text == last.source_documents[i].page_content
                  content == last.sources[i].content
              IN /\ Len(text) <= 200 => content = text
                 /\ Len(text) > 200 =>
                       /\ Len(content) = 203
                       /\ SubSeq(content, 1, 200) = SubSeq(text, 1, 200)
                       /\ SubSeq(content, 201, 203) = <<".", ".", ".">>
                 /\ Len(content) <= 203

\* C15 witness: a response whose sources are all built, from chunks of 200
\* characters, of more than 200 and of fewer, in an order that is not sorted
C15_Witness ==
    /\ last.op = "rag_query"
    /\ Len(last.sources) = Len(last.source_documents)
    /\ Len(last.sources) = 4
    /\ Len(last.source_documents[1].page_content) > 203
    /\ Len(last.source_documents[2].page_content) = 200
    /\ Len(last.source_documents[3].page_content) = 201
    /\ Len(last.source_documents[4].page_content) < 200
    /\ Len(last.sources[1].content) = 203
    /\ Len(last.sources[2].content) = 200

\* The records and the storage left by the process calls of first and then
\* second, one after the other from the initial state, with what the calls in
\* pending were given
OneAfterTheOther(first, second) ==
    LET files0 == [p \in Paths |-> Missing]
        c1 == pending[first]
        c2 == pending[second]
        r1 == process_document(UploadPath(first), first, c1.content, c1.embed, c1.write,
                               c1.save, <<>>, [files0 EXCEPT ![UploadPath(first)] = Pdf])
        r2 == process_document(UploadPath(second), second, c2.content, c2.embed, c2.write,
                               c2.save, r1.docs, [r1.files EXCEPT ![UploadPath(second)] = Pdf])
    IN [docs |-> r2.docs, files |-> r2.files]

\* C16: process calls for two distinct documentIds, interleaved in any order,
\* never write the same index file: a step of one call leaves the file at the
\* vectorstore_path of the other as it is; and when both have ended the index
\* files and the records are those that one of the two orders of running the
\* calls one after the other leaves
C16_DistinctDocumentsIndependent ==
    /\ [][\A d \in DocIds : \A e \in DocIds \ {d} :
            pending'[d] # pending[d]
              => fs'[VectorstorePath(e)]
                   = fs[VectorstorePath(e)]]_vars
    /\ []((\A d \in DocIds : pending[d].pc = "done")
            => \E first \in DocIds : \E second \in DocIds \ {first} :
                 LET seq == OneAfterTheOther(first, second)
                 IN /\ processed_docs = seq.docs
                    /\ \A d \in DocIds :
                          fs[VectorstorePath(d)]
                            = seq.files[VectorstorePath(d)])

\* C16 witness: both calls have ended with success, the second having started
\* while the first was in flight, and each index holds the chunks of its own
\* document, which differ
C16_Witness ==
    /\ \A d \in DocIds : pending[d].pc = "done" /\ pending[d].ret
    /\ \E d \in DocIds : pending[d].overlapped
    /\ \A d \in DocIds : fs[VectorstorePath(d)] = Index(pending[d].chunks)
    /\ \E d \in DocIds : \E e \in DocIds : pending[d].chunks # pending[e].chunks
    /\ Len(processed_docs) = 2

\* C17: the registry file holds a record for every documentId whose last
\* successful process was not followed by a delete that returned true, in
\* every run of process, delete, list, query and restart steps.  Stated for
\* the runs in which no storage call raises and no file is removed from
\* outside: there the file holds no other records, so the claim is that each
\* step keeps the records the file holds, but for a delete of the documentId
\* that returns true, and that a successful process leaves the record of its
\* documentId in the file
C17_NoRecordLostAcrossRestarts ==
    [][faults' = 0 =>
        \A d \in DocIds :
          (\/ /\ HasKey(Persisted(fs), d)
              /\ ~(last'.op = "delete" /\ last'.ret /\ last'.filename = d)
           \/ last'.op = "process" /\ last'.ret /\ last'.filename = d)
            => HasKey(Persisted(fs'), d)]_vars

====
